---------------------------- MODULE Spec2Model ----------------------------
(***************************************************************************)
(* Model of the disk manager of mini-rdbms (src/src/disk_manager.rs): one  *)
(* heap file made of PAGE_SIZE-byte pages, a DiskManager that owns a file   *)
(* handle (with its cursor) and the counter next_page_id, and the          *)
(* operations new, allocate_page, read, write and drop.                    *)
(*                                                                         *)
(* Byte strings (the file's contents, the callers' buffers) are kept in    *)
(* run-length form: a sequence of runs [n |-> count, b |-> byte], every    *)
(* count positive and no two neighbouring runs with the same byte, so that *)
(* two byte strings are equal exactly when their run sequences are equal.  *)
(***************************************************************************)
EXTENDS Integers, Sequences, FiniteSets

\* const PAGE_SIZE: usize = 4096
PAGE_SIZE == 4096

\* Bounds of the model
MaxPageId == 2      \* callers pass PageID(0) .. PageID(MaxPageId)
MaxAllocs == 2      \* allocate_page calls per DiskManager instance
MaxOpens == 2       \* DiskManager::new calls over the life of the file
MaxAnyLenPageId == 1 \* identifiers passed with buffers of any length
MaxWideLo == 1      \* low 52 bits of the identifiers of the 64-bit range
MaxWideHi == 1      \* bits 52..63 of the identifiers of the 64-bit range
MaxThreadPageId == 1 \* identifiers passed by the threads that share a store

(***************************************************************************)
(* Byte strings                                                            *)
(***************************************************************************)
Fill(b, n) == IF n <= 0 THEN <<>> ELSE <<[n |-> n, b |-> b]>>

RECURSIVE BLen(_)
BLen(s) == IF s = <<>> THEN 0 ELSE Head(s).n + BLen(Tail(s))

RECURSIVE BTake(_, _)
BTake(s, k) ==
    IF k <= 0 \/ s = <<>> THEN <<>>
    ELSE IF Head(s).n <= k THEN <<Head(s)>> \o BTake(Tail(s), k - Head(s).n)
    ELSE <<[n |-> k, b |-> Head(s).b]>>

RECURSIVE BDrop(_, _)
BDrop(s, k) ==
    IF k <= 0 \/ s = <<>> THEN s
    ELSE IF Head(s).n <= k THEN BDrop(Tail(s), k - Head(s).n)
    ELSE <<[n |-> Head(s).n - k, b |-> Head(s).b]>> \o Tail(s)

BCat(s, t) ==
    IF s = <<>> THEN t
    ELSE IF t = <<>> THEN s
    ELSE IF s[Len(s)].b = t[1].b
         THEN SubSeq(s, 1, Len(s) - 1)
              \o <<[n |-> s[Len(s)].n + t[1].n, b |-> t[1].b]>>
              \o Tail(t)
         ELSE s \o t

\* the bytes s[from .. from+n) that exist
BSlice(s, from, n) == BTake(BDrop(s, from), n)

Max(a, b) == IF a >= b THEN a ELSE b
Min(a, b) == IF a <= b THEN a ELSE b

(***************************************************************************)
(* Inputs                                                                  *)
(***************************************************************************)
PageIds == 0 .. MaxPageId

\* buffers as the test builds them: a text followed by zero padding up to
\* PAGE_SIZE ("test" is 4 bytes, "second_test" 11), and a page of one byte value
TestPage == BCat(Fill(1, 4), Fill(0, PAGE_SIZE - 4))
SecondTestPage == BCat(Fill(2, 11), Fill(0, PAGE_SIZE - 11))
PageBuffers == {TestPage, SecondTestPage}

\* buffers that break the PAGE_SIZE precondition of write
ShortBuffer == Fill(3, PAGE_SIZE - 1)
LongBuffer == Fill(3, PAGE_SIZE + 1)
AnyBuffers == {TestPage, ShortBuffer, LongBuffer}
AnyLens == {PAGE_SIZE - 1, PAGE_SIZE, PAGE_SIZE + 1}
AnyLenPageIds == 0 .. MaxAnyLenPageId

\* what the file at heap_file_path may hold before the first open: nothing
\* (or no file: create(true) makes it empty), one page, one page and a
\* partial trailing page
InitFiles == {<<>>, Fill(4, PAGE_SIZE), Fill(4, PAGE_SIZE + 100)}

NoData == <<>>

(***************************************************************************)
(* State                                                                   *)
(***************************************************************************)
VARIABLES
    heap_file,      \* the bytes of the file on disk
    opened,         \* a DiskManager instance exists
    next_page_id,   \* its counter
    cursor,         \* the position of its file handle
    ret,            \* the last call and what it returned
    opens,          \* number of DiskManager::new calls so far
    issued,         \* identifiers returned by allocate_page on this instance
    everIssued,     \* identifiers returned by allocate_page on any instance
    last,           \* per identifier, the buffer of the last write to it
    file0,          \* the file before the first open
    openLen,        \* the file's length when this instance was opened
    writtenAtOpen,  \* identifiers written before this instance was opened
    page_hi,        \* bits 52..63 of the PageID of the last read or write:
                    \* the identifier passed is page_hi * 2^52 + ret.id
    use_lock,       \* the threads wrap every call in one exclusive lock
    lock,           \* the thread that holds the lock, 0 when it is free
    pc,             \* per thread, where it is inside its call
    local           \* per thread, the arguments and locals of its call

vars == <<heap_file, opened, next_page_id, cursor, ret, opens, issued,
          everIssued, last, file0, openLen, writtenAtOpen, page_hi,
          use_lock, lock, pc, local>>

\* the threads that share one DiskManager
Threads == {1, 2}
threads == <<use_lock, lock, pc, local>>

\* the arguments and locals of a thread that is in no call
NoLocals == [page_id |-> 0, tmp |-> 0, data |-> <<>>]

\* what the calls of a single owner on identifiers below 2^52 leave alone
narrow == <<everIssued, page_hi, threads>>

hist == <<opens, issued, last, file0, openLen, writtenAtOpen>>

Ret(op, id, status, data) ==
    [op |-> op, id |-> id, status |-> status, data |-> data]

\* identifiers to which a whole page was written
Written == {p \in PageIds : BLen(last[p]) = PAGE_SIZE}

Init ==
    /\ heap_file \in InitFiles
    /\ opened = FALSE
    /\ next_page_id = 0
    /\ cursor = 0
    /\ ret = Ret("init", 0, "ok", NoData)
    /\ opens = 0
    /\ issued = <<>>
    /\ everIssued = {}
    /\ last = [p \in PageIds |-> NoData]
    /\ file0 = heap_file
    /\ openLen = 0
    /\ writtenAtOpen = {}
    /\ page_hi = 0
    /\ use_lock = FALSE
    /\ lock = 0
    /\ pc = [t \in Threads |-> "idle"]
    /\ local = [t \in Threads |-> NoLocals]

(***************************************************************************)
(* Operations                                                              *)
(***************************************************************************)
\* mutant: the division rounds up, counting a partial trailing page
PageCount_roundup(file_size) == (file_size + PAGE_SIZE - 1) \div PAGE_SIZE

\* file_size / PAGE_SIZE as u64
PageCount(file_size) == file_size \div PAGE_SIZE

\* mutant: the identifier is used as the byte offset
Offset_unscaled(page_id) == page_id

\* PAGE_SIZE as u64 * page_id.to_u64(); for the identifiers of PageIds the
\* product stays far below 2^64, so the u64 multiplication is exact
Offset(page_id) == PAGE_SIZE * page_id

\* mutant: a seek past the end is not followed by zero padding, the data
\* lands right at the old end of the file
WriteAt_nopad(file, offset, data) ==
    BCat(BCat(BTake(file, offset), data), BDrop(file, offset + BLen(data)))

\* mutant: the seek is missing and the data lands at the end of the file
WriteAt_noseek(file, offset, data) == BCat(file, data)

\* seek(SeekFrom::Start(offset)) then write_all(data) on a file
WriteAt(file, offset, data) ==
    IF BLen(data) = 0 THEN file
    ELSE IF offset > BLen(file)
    THEN BCat(BCat(file, Fill(0, offset - BLen(file))), data)
    ELSE BCat(BCat(BTake(file, offset), data),
              BDrop(file, offset + BLen(data)))

\* mutant: the counter starts at zero whatever the file holds
new_from_zero ==
    /\ ~opened
    /\ opens < MaxOpens
    /\ opened' = TRUE
    /\ next_page_id' = 0
    /\ cursor' = 0
    /\ ret' = Ret("new", 0, "ok", NoData)
    /\ opens' = opens + 1
    /\ issued' = <<>>
    /\ openLen' = BLen(heap_file)
    /\ writtenAtOpen' = Written
    /\ UNCHANGED <<heap_file, last, file0>>

\* mutant: the file is opened with truncate(true)
new_truncate ==
    /\ ~opened
    /\ opens < MaxOpens
    /\ opened' = TRUE
    /\ heap_file' = <<>>
    /\ next_page_id' = 0
    /\ cursor' = 0
    /\ ret' = Ret("new", 0, "ok", NoData)
    /\ opens' = opens + 1
    /\ issued' = <<>>
    /\ openLen' = 0
    /\ writtenAtOpen' = Written
    /\ UNCHANGED <<last, file0>>

\* DiskManager::new
new ==
    /\ ~opened
    /\ opens < MaxOpens
    /\ opened' = TRUE
    /\ next_page_id' = PageCount(BLen(heap_file))
    /\ cursor' = 0
    /\ ret' = Ret("new", 0, "ok", NoData)
    /\ opens' = opens + 1
    /\ issued' = <<>>
    /\ openLen' = BLen(heap_file)
    /\ writtenAtOpen' = Written
    /\ UNCHANGED <<heap_file, last, file0>>

\* drop(disk): the instance and its file handle go away
drop ==
    /\ opened
    /\ opened' = FALSE
    /\ next_page_id' = 0
    /\ cursor' = 0
    /\ ret' = Ret("drop", 0, "ok", NoData)
    /\ issued' = <<>>
    /\ UNCHANGED <<heap_file, opens, last, file0, openLen, writtenAtOpen>>

\* mutant: allocating reserves the page's bytes in the file
allocate_page_reserving ==
    /\ opened
    /\ Len(issued) < MaxAllocs
    /\ next_page_id' = next_page_id + 1
    /\ heap_file' = BCat(heap_file, Fill(0, PAGE_SIZE))
    /\ ret' = Ret("allocate_page", next_page_id, "ok", NoData)
    /\ issued' = Append(issued, next_page_id)
    /\ UNCHANGED <<opened, cursor, opens, last, file0, openLen, writtenAtOpen>>

\* mutant: the counter is not incremented
allocate_page_noinc ==
    /\ opened
    /\ Len(issued) < MaxAllocs
    /\ ret' = Ret("allocate_page", next_page_id, "ok", NoData)
    /\ issued' = Append(issued, next_page_id)
    /\ UNCHANGED <<heap_file, opened, next_page_id, cursor, opens, last, file0,
                   openLen, writtenAtOpen>>

\* DiskManager::allocate_page
allocate_page ==
    /\ opened
    /\ Len(issued) < MaxAllocs
    /\ next_page_id' = next_page_id + 1
    /\ ret' = Ret("allocate_page", next_page_id, "ok", NoData)
    /\ issued' = Append(issued, next_page_id)
    /\ UNCHANGED <<heap_file, opened, cursor, opens, last, file0, openLen,
                   writtenAtOpen>>

\* mutant: read instead of read_exact, a short read reported as success
read_short_ok(page_id, n) ==
    LET offset == PAGE_SIZE * page_id
        avail == Max(0, BLen(heap_file) - offset)
        got == BSlice(heap_file, offset, n)
    IN  /\ opened
        /\ cursor' = offset + Min(avail, n)
        /\ ret' = Ret("read", page_id, "ok", BCat(got, Fill(0, n - avail)))
        /\ UNCHANGED <<heap_file, opened, next_page_id, hist>>

\* DiskManager::read with a destination buffer of n zero bytes
read(page_id, n) ==
    LET offset == Offset(page_id)
        avail == Max(0, BLen(heap_file) - offset)
        got == BSlice(heap_file, offset, n)
    IN  /\ opened
        /\ cursor' = offset + Min(avail, n)
        /\ ret' = IF avail >= n
                  THEN Ret("read", page_id, "ok", got)
                  ELSE Ret("read", page_id, "err", BCat(got, Fill(0, n - avail)))
        /\ UNCHANGED <<heap_file, opened, next_page_id, hist>>

\* mutant: a write past the counter takes the counter along
write_bumping(page_id, data) ==
    LET offset == Offset(page_id)
    IN  /\ opened
        /\ heap_file' = WriteAt(heap_file, offset, data)
        /\ cursor' = offset + BLen(data)
        /\ ret' = Ret("write", page_id, "ok", NoData)
        /\ last' = [last EXCEPT ![page_id] = data]
        /\ next_page_id' = Max(next_page_id, page_id + 1)
        /\ UNCHANGED <<opened, opens, issued, file0, openLen, writtenAtOpen>>

\* mutant: a write to an identifier not yet allocated is refused
write_checked(page_id, data) ==
    LET offset == PAGE_SIZE * page_id
        refused == page_id >= next_page_id
    IN  /\ opened
        /\ heap_file' = IF refused THEN heap_file
                         ELSE WriteAt(heap_file, offset, data)
        /\ cursor' = IF refused THEN cursor ELSE offset + BLen(data)
        /\ ret' = Ret("write", page_id, IF refused THEN "err" ELSE "ok", NoData)
        /\ last' = IF refused THEN last ELSE [last EXCEPT ![page_id] = data]
        /\ UNCHANGED <<opened, next_page_id, opens, issued, file0, openLen,
                       writtenAtOpen>>

\* DiskManager::write
write(page_id, data) ==
    LET offset == Offset(page_id)
    IN  /\ opened
        /\ heap_file' = WriteAt(heap_file, offset, data)
        /\ cursor' = offset + BLen(data)
        /\ ret' = Ret("write", page_id, "ok", NoData)
        /\ last' = [last EXCEPT ![page_id] = data]
        /\ UNCHANGED <<opened, next_page_id, opens, issued, file0, openLen,
                       writtenAtOpen>>

(***************************************************************************)
(* The whole range of PageID(u64).  An identifier is kept as its bits      *)
(* 52..63 (hi) and its bits 0..51 (lo): it is hi * 2^52 + lo.  PAGE_SIZE   *)
(* is 2^12, so PAGE_SIZE * (hi * 2^52 + lo) = hi * 2^64 + PAGE_SIZE * lo:  *)
(* the product passes 2^64 exactly when hi > 0, and the 64 bits that are   *)
(* left of it are PAGE_SIZE * lo.                                          *)
(***************************************************************************)
WidePageIds == [hi : 0 .. MaxWideHi, lo : 0 .. MaxWideLo]

\* PAGE_SIZE as u64 * page_id.to_u64() overflows
Overflows(pid) == pid.hi > 0

\* PAGE_SIZE as u64 * page_id.to_u64(), the 64 bits of the product (a build
\* without overflow checks)
Offset_u64(pid) == PAGE_SIZE * pid.lo

\* DiskManager::read on an identifier of the whole range
read_u64(pid, n) ==
    LET offset == Offset_u64(pid)
        avail == Max(0, BLen(heap_file) - offset)
        got == BSlice(heap_file, offset, n)
    IN  /\ opened
        /\ cursor' = offset + Min(avail, n)
        /\ ret' = IF avail >= n
                  THEN Ret("read", pid.lo, "ok", got)
                  ELSE Ret("read", pid.lo, "err", BCat(got, Fill(0, n - avail)))
        /\ page_hi' = pid.hi
        /\ UNCHANGED <<heap_file, opened, next_page_id, hist, everIssued,
                       threads>>

\* DiskManager::write on an identifier of the whole range
write_u64(pid, data) ==
    LET offset == Offset_u64(pid)
    IN  /\ opened
        /\ heap_file' = WriteAt(heap_file, offset, data)
        /\ cursor' = offset + BLen(data)
        /\ ret' = Ret("write", pid.lo, "ok", NoData)
        /\ page_hi' = pid.hi
        /\ last' = IF pid.hi = 0 THEN [last EXCEPT ![pid.lo] = data] ELSE last
        /\ UNCHANGED <<opened, next_page_id, opens, issued, file0, openLen,
                       writtenAtOpen, everIssued, threads>>

\* read or write in a build with overflow checks: the multiplication panics
\* before the seek, and the unwinding drops the DiskManager
overflow_panic(op, pid) ==
    /\ opened
    /\ Overflows(pid)
    /\ opened' = FALSE
    /\ next_page_id' = 0
    /\ cursor' = 0
    /\ ret' = Ret(op, pid.lo, "panic", NoData)
    /\ page_hi' = pid.hi
    /\ issued' = <<>>
    /\ UNCHANGED <<heap_file, opens, last, file0, openLen, writtenAtOpen,
                   everIssued, threads>>

(***************************************************************************)
(* Threads that share one DiskManager.  Each call is taken apart into the  *)
(* steps of its code, and the steps of two calls may interleave; when      *)
(* use_lock holds, the callers wrap every call in one exclusive lock.      *)
(* The record of the calls (hist) stays as it was when the threads         *)
(* started, but for the identifiers issued.                                *)
(***************************************************************************)
ThreadPageIds == 0 .. MaxThreadPageId

\* the caller's lock around a call
Acquire(t) == (use_lock => lock = 0) /\ lock' = IF use_lock THEN t ELSE 0

Goto(t, label) == pc' = [pc EXCEPT ![t] = label]

\* the call returns: its arguments and locals are gone
Return(t) ==
    /\ pc' = [pc EXCEPT ![t] = "idle"]
    /\ local' = [local EXCEPT ![t] = NoLocals]
    /\ lock' = 0

InCall(t) == pc[t] # "idle"
Allocating == {t \in Threads : pc[t] \in {"alloc_load", "alloc_store"}}

\* allocate_page: let page_id = self.next_page_id
t_alloc_read(t) ==
    /\ opened /\ pc[t] = "idle"
    /\ Len(issued) + Cardinality(Allocating) < MaxAllocs
    /\ Acquire(t)
    /\ local' = [local EXCEPT ![t].page_id = next_page_id]
    /\ Goto(t, "alloc_load")
    /\ UNCHANGED <<heap_file, opened, next_page_id, cursor, ret, hist,
                   everIssued, page_hi, use_lock>>

\* allocate_page: self.next_page_id += 1, the load
t_alloc_load(t) ==
    /\ pc[t] = "alloc_load"
    /\ local' = [local EXCEPT ![t].tmp = next_page_id]
    /\ Goto(t, "alloc_store")
    /\ UNCHANGED <<heap_file, opened, next_page_id, cursor, ret, hist,
                   everIssued, page_hi, use_lock, lock>>

\* mutant: the value loaded is stored back without the increment
t_alloc_store_noinc(t) ==
    /\ pc[t] = "alloc_store"
    /\ next_page_id' = local[t].tmp
    /\ ret' = Ret("allocate_page", local[t].page_id, "ok", NoData)
    /\ issued' = Append(issued, local[t].page_id)
    /\ Return(t)
    /\ UNCHANGED <<heap_file, opened, cursor, opens, last, file0, openLen,
                   writtenAtOpen, everIssued, page_hi, use_lock>>

\* allocate_page: self.next_page_id += 1, the store, and PageID(page_id)
t_alloc_store(t) ==
    /\ pc[t] = "alloc_store"
    /\ next_page_id' = local[t].tmp + 1
    /\ ret' = Ret("allocate_page", local[t].page_id, "ok", NoData)
    /\ issued' = Append(issued, local[t].page_id)
    /\ Return(t)
    /\ UNCHANGED <<heap_file, opened, cursor, opens, last, file0, openLen,
                   writtenAtOpen, everIssued, page_hi, use_lock>>

\* read: self.heap_file.seek(SeekFrom::Start(offset))?
t_read_seek(t, page_id) ==
    /\ opened /\ pc[t] = "idle"
    /\ Acquire(t)
    /\ cursor' = Offset(page_id)
    /\ local' = [local EXCEPT ![t].page_id = page_id, ![t].data = NoData]
    /\ Goto(t, "read_exact")
    /\ UNCHANGED <<heap_file, opened, next_page_id, ret, hist, everIssued,
                   page_hi, use_lock>>

\* read: self.heap_file.read_exact(data), from where the cursor is
t_read_exact(t) ==
    LET n == PAGE_SIZE
        avail == Max(0, BLen(heap_file) - cursor)
        got == BSlice(heap_file, cursor, n)
    IN  /\ pc[t] = "read_exact"
        /\ cursor' = cursor + Min(avail, n)
        /\ ret' = IF avail >= n
                  THEN Ret("read", local[t].page_id, "ok", got)
                  ELSE Ret("read", local[t].page_id, "err",
                           BCat(got, Fill(0, n - avail)))
        /\ Return(t)
        /\ UNCHANGED <<heap_file, opened, next_page_id, hist, everIssued,
                       page_hi, use_lock>>

\* write: self.heap_file.seek(SeekFrom::Start(offset))?
t_write_seek(t, page_id, data) ==
    /\ opened /\ pc[t] = "idle"
    /\ Acquire(t)
    /\ cursor' = Offset(page_id)
    /\ local' = [local EXCEPT ![t].page_id = page_id, ![t].data = data]
    /\ Goto(t, "write_all")
    /\ UNCHANGED <<heap_file, opened, next_page_id, ret, hist, everIssued,
                   page_hi, use_lock>>

\* mutant: the file is opened with append(true), every write lands at its end
t_write_all_append(t) ==
    /\ pc[t] = "write_all"
    /\ heap_file' = BCat(heap_file, local[t].data)
    /\ cursor' = BLen(heap_file) + BLen(local[t].data)
    /\ ret' = Ret("write", local[t].page_id, "ok", NoData)
    /\ Return(t)
    /\ UNCHANGED <<opened, next_page_id, hist, everIssued, page_hi, use_lock>>

\* write: self.heap_file.write_all(data), at where the cursor is
t_write_all(t) ==
    /\ pc[t] = "write_all"
    /\ heap_file' = WriteAt(heap_file, cursor, local[t].data)
    /\ cursor' = cursor + BLen(local[t].data)
    /\ ret' = Ret("write", local[t].page_id, "ok", NoData)
    /\ Return(t)
    /\ UNCHANGED <<opened, next_page_id, hist, everIssued, page_hi, use_lock>>

\* callers that keep the precondition: every buffer is PAGE_SIZE bytes long
Next ==
    \/ new /\ UNCHANGED narrow
    \/ drop /\ UNCHANGED narrow
    \/ allocate_page /\ UNCHANGED narrow
    \/ \E page_id \in PageIds :
          read(page_id, PAGE_SIZE) /\ UNCHANGED narrow
    \/ \E page_id \in PageIds, data \in PageBuffers :
          write(page_id, data) /\ UNCHANGED narrow

Spec == Init /\ [][Next]_vars

\* the same callers, with the identifiers issued over the whole life of the
\* file recorded in everIssued
NextLifetime ==
    \/ new /\ UNCHANGED narrow
    \/ drop /\ UNCHANGED narrow
    \/ allocate_page /\ everIssued' = everIssued \cup {next_page_id}
                     /\ UNCHANGED <<page_hi, threads>>
    \/ \E page_id \in PageIds :
          read(page_id, PAGE_SIZE) /\ UNCHANGED narrow
    \/ \E page_id \in PageIds, data \in PageBuffers :
          write(page_id, data) /\ UNCHANGED narrow

SpecLifetime == Init /\ [][NextLifetime]_vars

\* callers that pass buffers of any length, on a file that starts empty
InitAnyLen == Init /\ heap_file = <<>>

NextAnyLen ==
    \/ new /\ UNCHANGED narrow
    \/ drop /\ UNCHANGED narrow
    \/ allocate_page /\ UNCHANGED narrow
    \/ \E page_id \in AnyLenPageIds, n \in AnyLens :
          read(page_id, n) /\ UNCHANGED narrow
    \/ \E page_id \in AnyLenPageIds, data \in AnyBuffers :
          write(page_id, data) /\ UNCHANGED narrow

SpecAnyLen == InitAnyLen /\ [][NextAnyLen]_vars

\* callers that pass identifiers of the whole 64-bit range, on a file that
\* starts empty; the build has overflow checks or has none
NextWide ==
    \/ new /\ UNCHANGED narrow
    \/ drop /\ UNCHANGED narrow
    \/ allocate_page /\ UNCHANGED narrow
    \/ \E pid \in WidePageIds : read_u64(pid, PAGE_SIZE)
    \/ \E pid \in WidePageIds, data \in PageBuffers : write_u64(pid, data)
    \/ \E pid \in WidePageIds, op \in {"read", "write"} : overflow_panic(op, pid)

SpecWide == InitAnyLen /\ [][NextWide]_vars

\* two threads on the store of the test after its reopen: the file holds
\* the two pages written, the counter is 2; the callers lock or do not
InitThreads ==
    /\ heap_file = BCat(TestPage, SecondTestPage)
    /\ opened = TRUE
    /\ next_page_id = 2
    /\ cursor = 0
    /\ ret = Ret("new", 0, "ok", NoData)
    /\ opens = 2
    /\ issued = <<>>
    /\ everIssued = {}
    /\ last = [p \in PageIds |->
                 IF p = 0 THEN TestPage ELSE IF p = 1 THEN SecondTestPage
                 ELSE NoData]
    /\ file0 = <<>>
    /\ openLen = 2 * PAGE_SIZE
    /\ writtenAtOpen = {0, 1}
    /\ page_hi = 0
    /\ use_lock \in BOOLEAN
    /\ lock = 0
    /\ pc = [t \in Threads |-> "idle"]
    /\ local = [t \in Threads |-> NoLocals]

NextThreads ==
    \E t \in Threads :
        \/ t_alloc_read(t)
        \/ t_alloc_load(t)
        \/ t_alloc_store(t)
        \/ \E page_id \in ThreadPageIds : t_read_seek(t, page_id)
        \/ t_read_exact(t)
        \/ \E page_id \in ThreadPageIds, data \in PageBuffers :
              t_write_seek(t, page_id, data)
        \/ t_write_all(t)

SpecThreads == InitThreads /\ [][NextThreads]_vars

(***************************************************************************)
(* I/O faults. The seek of read and write, and the open and the metadata   *)
(* query of new, can fail; each is followed by ?, which returns the error  *)
(* to the caller from that line.                                           *)
(***************************************************************************)
\* read: self.heap_file.seek(..)? fails; read_exact is not reached and the
\* caller's buffer (n zero bytes before the call) is as it was
read_seek_fail(page_id, n) ==
    /\ opened
    /\ ret' = Ret("read", page_id, "seek_err", Fill(0, n))
    /\ UNCHANGED <<heap_file, opened, next_page_id, cursor, hist>>

\* mutant: the error of the seek is returned only after the transfer
write_seek_fail_late(page_id, data) ==
    /\ opened
    /\ heap_file' = WriteAt(heap_file, cursor, data)
    /\ cursor' = cursor + BLen(data)
    /\ ret' = Ret("write", page_id, "seek_err", NoData)
    /\ UNCHANGED <<opened, next_page_id, hist>>

\* write: self.heap_file.seek(..)? fails; write_all is not reached
write_seek_fail(page_id, data) ==
    /\ opened
    /\ ret' = Ret("write", page_id, "seek_err", NoData)
    /\ UNCHANGED <<heap_file, opened, next_page_id, cursor, hist>>

\* new: OpenOptions::open(..)? fails; no handle, no DiskManager
new_open_fail ==
    /\ ~opened
    /\ ret' = Ret("new", 0, "open_err", NoData)
    /\ UNCHANGED <<heap_file, opened, next_page_id, cursor, hist>>

\* new: heap_file.metadata()? fails; the handle just opened is dropped and
\* no DiskManager is built
new_metadata_fail ==
    /\ ~opened
    /\ ret' = Ret("new", 0, "metadata_err", NoData)
    /\ UNCHANGED <<heap_file, opened, next_page_id, cursor, hist>>

\* the callers of Spec, on a file that starts empty and a file system whose
\* calls can fail
NextFault ==
    \/ Next
    \/ \E page_id \in PageIds :
          read_seek_fail(page_id, PAGE_SIZE) /\ UNCHANGED narrow
    \/ \E page_id \in PageIds, data \in PageBuffers :
          write_seek_fail(page_id, data) /\ UNCHANGED narrow
    \/ new_open_fail /\ UNCHANGED narrow
    \/ new_metadata_fail /\ UNCHANGED narrow

SpecFault == InitAnyLen /\ [][NextFault]_vars

(***************************************************************************)
(* Callers that write only to identifiers they own: those returned by      *)
(* allocate_page on this instance and those of the pages the file held     *)
(* when it was opened.                                                     *)
(***************************************************************************)
Range(f) == {f[i] : i \in DOMAIN f}

Owned ==
    {p \in PageIds : p \in Range(issued) \/ p < PageCount(openLen)}

NextOwned ==
    \/ new /\ UNCHANGED narrow
    \/ drop /\ UNCHANGED narrow
    \/ allocate_page /\ UNCHANGED narrow
    \/ \E page_id \in PageIds :
          read(page_id, PAGE_SIZE) /\ UNCHANGED narrow
    \/ \E page_id \in Owned, data \in PageBuffers :
          write(page_id, data) /\ UNCHANGED narrow

SpecOwned == Init /\ [][NextOwned]_vars

TypeOK ==
    /\ opened \in BOOLEAN
    /\ next_page_id \in Nat
    /\ cursor \in Nat

(***************************************************************************)
(* Claims                                                                  *)
(***************************************************************************)
\* C1: once a PAGE_SIZE buffer c was written to p and p was not written
\* again, every read of p into a PAGE_SIZE buffer succeeds and yields c, on
\* the same instance or on one reopened on the file, whatever calls on
\* other identifiers came in between.
C1_RoundTrip ==
    (ret.op = "read" /\ last[ret.id] # NoData)
        => (ret.status = "ok" /\ ret.data = last[ret.id])

\* the test's scenario: both pages written, the store reopened, page 1 read
C1_Witness ==
    /\ ret.op = "read" /\ ret.id = 1 /\ ret.status = "ok"
    /\ opens = 2 /\ writtenAtOpen = {0, 1}
    /\ last[0] = TestPage /\ last[1] = SecondTestPage
    /\ ret.data = SecondTestPage

\* C2 as stated: the identifiers returned on one instance are 0, 1, 2, ...
\* (here on a file that was empty before its first open)
C2_FromZero == file0 = <<>> => \A i \in DOMAIN issued : issued[i] = i - 1

\* C2 amended: the identifiers returned on one instance are n, n+1, n+2, ...
\* in call order, n the number of whole pages in the file when the instance
\* was opened.
C2_FromPageCount ==
    \A i \in DOMAIN issued :
        LET n == issued[i] - (i - 1)
        IN  n * PAGE_SIZE <= openLen /\ openLen < (n + 1) * PAGE_SIZE

C2_Witness == issued = <<1, 2>> /\ file0 = <<>> /\ opens = 2

\* C3: right after new the counter is the file's length divided by
\* PAGE_SIZE, rounded down, and no identifier allocated on the instance is
\* one a page was written to before the instance was opened.
C3_CounterRecovery ==
    /\ ret.op = "new" =>
          /\ next_page_id * PAGE_SIZE <= BLen(heap_file)
          /\ BLen(heap_file) < (next_page_id + 1) * PAGE_SIZE
    /\ \A i \in DOMAIN issued : issued[i] \notin writtenAtOpen

\* the test's scenario continued: pages 0 and 1 written on a fresh file,
\* the store reopened, and the first allocate_page returns 2
C3_Witness ==
    /\ file0 = <<>> /\ opens = 2 /\ writtenAtOpen = {0, 1}
    /\ issued = <<2>> /\ ret = Ret("allocate_page", 2, "ok", NoData)

\* C4 as stated: over the life of the file allocate_page never returns an
\* identifier that an earlier allocate_page call, on this or on an earlier
\* instance, has returned.
C4_NeverReused ==
    [][(ret'.op = "allocate_page" /\ ret' # ret) => ret'.id \notin everIssued]_vars

\* C5 as stated: a write whose buffer is not PAGE_SIZE bytes long is rejected
\* and leaves the file as it was, and a read into a buffer that is not
\* PAGE_SIZE bytes long is rejected.
C5_LengthChecked ==
    [][/\ (ret'.op = "write" /\ BLen(last'[ret'.id]) # PAGE_SIZE)
           => (ret'.status # "ok" /\ heap_file' = heap_file)
       /\ (ret'.op = "read" /\ BLen(ret'.data) # PAGE_SIZE)
           => ret'.status # "ok"]_vars

\* C6: a read of p into a PAGE_SIZE buffer returns an error whenever the
\* file ends before (p + 1) * PAGE_SIZE.
C6_ShortRead ==
    (ret.op = "read" /\ (ret.id + 1) * PAGE_SIZE > BLen(heap_file))
        => ret.status = "err"

\* an identifier allocated on a fresh file and never written is read
C6_Witness ==
    /\ ret.op = "read" /\ ret.status = "err" /\ ret.id = 1
    /\ issued = <<0, 1>> /\ last[1] = NoData
    /\ BLen(heap_file) = PAGE_SIZE

\* C7: a write of a PAGE_SIZE buffer to p leaves every byte the file held
\* outside [p * PAGE_SIZE, (p + 1) * PAGE_SIZE), the bytes of the pages
\* below p and of the pages above it, as it was.
C7_WriteIsolation ==
    [][ret'.op = "write" =>
         LET lo == ret'.id * PAGE_SIZE
             below == BTake(heap_file, lo)
             above == BDrop(heap_file, lo + PAGE_SIZE)
         IN  /\ BTake(heap_file', BLen(below)) = below
             /\ BSlice(heap_file', lo + PAGE_SIZE, BLen(above)) = above]_vars

\* page 1 rewritten between two written pages
C7_Witness ==
    /\ ret.op = "write" /\ ret.id = 1 /\ BLen(heap_file) = 3 * PAGE_SIZE
    /\ last[0] = TestPage /\ last[1] = SecondTestPage /\ last[2] = TestPage

\* C8: allocate_page succeeds, returns the counter's value, adds one to the
\* counter and leaves the file as it was.
C8_AllocateFrame ==
    [][(ret'.op = "allocate_page" /\ ret' # ret) =>
         /\ ret'.status = "ok"
         /\ ret'.id = next_page_id
         /\ next_page_id' = next_page_id + 1
         /\ heap_file' = heap_file]_vars

\* two identifiers allocated on an empty file, which stays empty
C8_Witness ==
    /\ ret = Ret("allocate_page", 1, "ok", NoData)
    /\ issued = <<0, 1>> /\ next_page_id = 2 /\ heap_file = <<>>

\* the highest identifier written so far, plus one
WrittenEnd ==
    IF Written = {} THEN 0
    ELSE 1 + CHOOSE p \in Written : \A q \in Written : q <= p

\* C9: the file is a function of what it held before the first open and of
\* the writes alone: it reaches to the end of the highest page written (or
\* to its first length if that is more), page N holds the buffer of the
\* last write to N, and a page never written holds its first bytes,
\* followed by zeros as far as the file reaches.
C9_Layout ==
    /\ BLen(heap_file) = Max(BLen(file0), WrittenEnd * PAGE_SIZE)
    /\ \A N \in 0 .. (BLen(heap_file) \div PAGE_SIZE) :
          BSlice(heap_file, N * PAGE_SIZE, PAGE_SIZE) =
            IF N \in Written THEN last[N]
            ELSE BTake(BCat(BSlice(file0, N * PAGE_SIZE, PAGE_SIZE),
                            Fill(0, PAGE_SIZE)),
                       Min(PAGE_SIZE, BLen(heap_file) - N * PAGE_SIZE))

\* page 2 written past a partial page 1, page 0 rewritten, with an
\* allocation and a reopen in between
C9_Witness ==
    /\ file0 = Fill(4, PAGE_SIZE + 100) /\ opens = 2 /\ issued = <<3>>
    /\ last[0] = TestPage /\ last[1] = NoData /\ last[2] = SecondTestPage
    /\ writtenAtOpen = {2}

\* C10 as stated: a write to an identifier not below the counter leaves the
\* file exactly (p + 1) * PAGE_SIZE bytes long.
C10_ExtendsExactly ==
    [][(ret'.op = "write" /\ ret'.id >= next_page_id)
         => BLen(heap_file') = (ret'.id + 1) * PAGE_SIZE]_vars

\* C10 amended: a write to an identifier p not below the counter succeeds
\* and puts its buffer at p * PAGE_SIZE, the file is then as long as before
\* or (p + 1) * PAGE_SIZE if that is more, and the next new sets the counter
\* above every identifier written.
C10_UnissuedWrite ==
    [][/\ (ret'.op = "write" /\ ret'.id >= next_page_id) =>
            /\ ret'.status = "ok"
            /\ BLen(heap_file') =
                 Max(BLen(heap_file), (ret'.id + 1) * PAGE_SIZE)
            /\ BSlice(heap_file', ret'.id * PAGE_SIZE, PAGE_SIZE)
                 = last'[ret'.id]
       /\ ret'.op = "new" =>
            \A p \in PageIds : last[p] # NoData => next_page_id' >= p + 1]_vars

\* on a fresh store that has allocated nothing, page 2 is written and the
\* file is three pages long
C10_Witness ==
    /\ ret.op = "write" /\ ret.id = 2 /\ opens = 1 /\ issued = <<>>
    /\ next_page_id = 0 /\ file0 = <<>>
    /\ BLen(heap_file) = 3 * PAGE_SIZE

\* C11: a write of a PAGE_SIZE buffer to p succeeds; when p * PAGE_SIZE is
\* at or past the end of the file the file is (p + 1) * PAGE_SIZE bytes
\* long afterwards, and when the page's range lies inside the file the
\* length stays as it was.
C11_ImplicitExtension ==
    [][ret'.op = "write" =>
         LET lo == ret'.id * PAGE_SIZE
         IN  /\ ret'.status = "ok"
             /\ lo >= BLen(heap_file) => BLen(heap_file') = lo + PAGE_SIZE
             /\ lo + PAGE_SIZE <= BLen(heap_file)
                  => BLen(heap_file') = BLen(heap_file)]_vars

\* page 2 written on an empty file: two pages of zeros come before it
C11_Witness ==
    /\ ret.op = "write" /\ ret.id = 2 /\ file0 = <<>>
    /\ last[0] = NoData /\ last[1] = NoData /\ last[2] = TestPage
    /\ heap_file = BCat(Fill(0, 2 * PAGE_SIZE), TestPage)

\* C12 as stated: the offset used for an identifier is the product
\* p * PAGE_SIZE itself, so a call on an identifier of 2^52 or more, whose
\* range lies past every byte of the file, does not reach the bytes of
\* another page: a write that succeeds leaves every byte the file held as
\* it was, and a read does not succeed.
C12_NoWrap ==
    [][/\ (ret'.op = "write" /\ ret'.status = "ok" /\ page_hi' > 0)
           => BTake(heap_file', BLen(heap_file)) = heap_file
       /\ (ret'.op = "read" /\ page_hi' > 0) => ret'.status # "ok"]_vars

\* C13: when every call is wrapped in the one lock, no identifier is
\* returned twice by the allocate_page calls of the threads; without the
\* lock two calls can read the same counter value and return it both (the
\* witness).
C13_LockedAllocation ==
    use_lock =>
        \A i, j \in DOMAIN issued : i # j => issued[i] # issued[j]

\* without the lock both threads have returned identifier 2
C13_Witness == ~use_lock /\ issued = <<2, 2>>

\* C14: when every call is wrapped in the one lock, a read of p returns the
\* bytes of page p and a write to p puts its buffer into page p and leaves
\* the bytes of the other pages alone; without the lock a read of one page
\* can return the bytes of another (the witness).
C14_LockedCursor ==
    [][use_lock =>
         \A t \in Threads :
            LET lo == local[t].page_id * PAGE_SIZE
                page == BSlice(heap_file, lo, PAGE_SIZE)
            IN  /\ (pc[t] = "read_exact" /\ pc'[t] = "idle") =>
                     /\ ret'.id = local[t].page_id
                     /\ heap_file' = heap_file
                     /\ IF BLen(page) = PAGE_SIZE
                        THEN ret'.status = "ok" /\ ret'.data = page
                        ELSE ret'.status = "err"
                /\ (pc[t] = "write_all" /\ pc'[t] = "idle") =>
                     /\ BSlice(heap_file', lo, PAGE_SIZE) = local[t].data
                     /\ BTake(heap_file', lo) = BTake(heap_file, lo)
                     /\ BDrop(heap_file', lo + PAGE_SIZE)
                          = BDrop(heap_file, lo + PAGE_SIZE)]_vars

\* without the lock a read of page 0 has returned the bytes of page 1
C14_Witness ==
    /\ ~use_lock
    /\ heap_file = BCat(TestPage, SecondTestPage)
    /\ ret = Ret("read", 0, "ok", SecondTestPage)

\* C15: a read or write whose seek fails returns the error in that step:
\* no byte of the file or of the caller's buffer changes, the cursor and
\* next_page_id stay, and nothing is retried; a new whose open or metadata
\* query fails returns the error, leaves the file alone and yields no store.
C15_ErrorPropagation ==
    [][/\ ret'.status = "seek_err" =>
            /\ ret'.op \in {"read", "write"}
            /\ heap_file' = heap_file
            /\ cursor' = cursor
            /\ next_page_id' = next_page_id
            /\ opened' = opened
            /\ ret'.data = IF ret'.op = "read" THEN Fill(0, PAGE_SIZE)
                                               ELSE NoData
       /\ ret'.status \in {"open_err", "metadata_err"} =>
            /\ ret'.op = "new"
            /\ ~opened'
            /\ heap_file' = heap_file
            /\ next_page_id' = next_page_id]_vars

\* the seek of a write to page 1 failed after page 0 was written: the file
\* still ends after page 0 and the cursor still stands at its end
C15_Witness ==
    /\ ret = Ret("write", 1, "seek_err", NoData)
    /\ file0 = <<>>
    /\ heap_file = TestPage
    /\ cursor = PAGE_SIZE
    /\ next_page_id = 0

\* C16: while the callers write only to identifiers they own, with
\* PAGE_SIZE buffers, the number of whole pages in the file never exceeds
\* next_page_id: the next identifier allocate_page returns has no whole
\* page in the file yet.
C16_CounterCoversFile ==
    opened => BLen(heap_file) \div PAGE_SIZE <= next_page_id

\* a file opened with a partial trailing page: identifier 1 was issued and
\* written, and the counter stands at the two whole pages
C16_Witness ==
    /\ opened
    /\ file0 = Fill(4, PAGE_SIZE + 100)
    /\ issued = <<1>>
    /\ ret.op = "write" /\ ret.id = 1
    /\ BLen(heap_file) = 2 * PAGE_SIZE
    /\ next_page_id = 2

\* C17: on a file that was empty or a whole number of pages long at the
\* start, the length is a multiple of PAGE_SIZE in every state the calls
\* with PAGE_SIZE buffers reach, and the counter new computes stands for
\* the whole file: the division discards nothing.
C17_PageAligned ==
    BLen(file0) % PAGE_SIZE = 0 =>
        /\ BLen(heap_file) % PAGE_SIZE = 0
        /\ (opened /\ ret.op = "new") =>
               next_page_id * PAGE_SIZE = BLen(heap_file)

\* a one-page file grown to three pages by a write to page 2 and reopened:
\* the counter stands at 3
C17_Witness ==
    /\ file0 = Fill(4, PAGE_SIZE)
    /\ opened /\ ret.op = "new" /\ opens = 2
    /\ last[2] = TestPage
    /\ BLen(heap_file) = 3 * PAGE_SIZE
    /\ next_page_id = 3

\* C18: a read, whether it succeeds or fails, leaves the file and
\* next_page_id as they were, and a write leaves next_page_id as it was; the
\* identifier the next allocate_page returns is the one it would have
\* returned before them.
C18_ReadWriteFrame ==
    [][/\ ret'.op = "read" =>
            /\ heap_file' = heap_file
            /\ next_page_id' = next_page_id
            /\ opened' = opened
       /\ ret'.op = "write" => next_page_id' = next_page_id
       /\ (ret'.op = "allocate_page" /\ ret.op \in {"read", "write"}) =>
            ret'.id = next_page_id]_vars

\* identifier 0 was issued, page 2 was written past it and a read of page 1
\* found the hole: the counter still stands at 1 and the cursor moved
C18_Witness ==
    /\ ret.op = "read" /\ ret.id = 1 /\ ret.status = "ok"
    /\ ret.data = Fill(0, PAGE_SIZE)
    /\ file0 = <<>>
    /\ issued = <<0>>
    /\ last[2] = SecondTestPage
    /\ next_page_id = 1
    /\ cursor = 2 * PAGE_SIZE

=============================================================================
